---- MODULE Spec2Model ----
(***************************************************************************)
(* geogebra_graph.py: conversion between a GeoGebra figure (a zip          *)
(* container holding the document geogebra.xml) and a SageMath graph.      *)
(*                                                                         *)
(*   geogebra_to_graph(ggb_filename)     the importer                      *)
(*   geogebra_graph_plot(G)              the palette mapper                *)
(*   graph_to_geogebra(G, ggb_filename)  the exporter                      *)
(*                                                                         *)
(* Python values are tagged records (None, str, dict), a str is a sequence *)
(* of one-character strings, an int is an integer, and a float is modelled *)
(* by its number of tenths (the float 1.5 is 15), so that every attribute  *)
(* of the document is text that has to be formatted and parsed.            *)
(***************************************************************************)
EXTENDS Integers, Sequences, FiniteSets, TLC

VARIABLES
    files,               \* the file system: path -> content
    G,                   \* the graph handed to the palette mapper and the exporter
    pc,                  \* the position of the running call
    exc,                 \* the exception that ended the running call, or "none"
    c,                   \* geogebra_to_graph: the construction element
    vertex_labels,       \* geogebra_to_graph: labels of the points, in index order
    vertex_information,  \* geogebra_to_graph: info dict of each point
    v,                   \* geogebra_to_graph: current vertex number
    pos,                 \* geogebra_to_graph: pos dict
    Gimp,                \* geogebra_to_graph: its local graph G, which it returns
    vertex_colors,       \* geogebra_graph_plot: colour name -> list of vertices
    edge_colors,         \* geogebra_graph_plot: colour name -> list of edges
    vi,                  \* graph_to_geogebra: vertices already emitted
    ei                   \* graph_to_geogebra: edges already emitted

vars == <<files, G, pc, exc, c, vertex_labels, vertex_information, v, pos, Gimp,
          vertex_colors, edge_colors, vi, ei>>

importVars == <<c, vertex_labels, vertex_information, v, pos, Gimp>>
plotVars == <<vertex_colors, edge_colors>>
exportVars == <<vi, ei>>

-----------------------------------------------------------------------------
(* Bounds of the model *)

\* longest construction (elements and commands) of an imported document
MaxDocLen == 5
\* most vertices of a graph handed to the palette mapper and the exporter
MaxN == 2

-----------------------------------------------------------------------------
(* Python values *)

None == [t |-> "none"]
Str(s) == [t |-> "str", s |-> s]
Dict(d) == [t |-> "dict", d |-> d]

IsDict(x) == x.t = "dict"
IsStr(x) == x.t = "str"

Range(s) == {s[i] : i \in DOMAIN s}

\* the characters of a key, for the substring test  key in "some string"
KeyChars(k) ==
    CASE k = "color" -> <<"c", "o", "l", "o", "r">>
      [] k = "size" -> <<"s", "i", "z", "e">>
      [] k = "style" -> <<"s", "t", "y", "l", "e">>

\* k in info: a key test on a dict, a substring test on a str
PyIn(k, info) ==
    IF IsDict(info) THEN k \in DOMAIN info.d
    ELSE LET s == info.s
             w == KeyChars(k)
         IN  \E i \in 1..(Len(s) - Len(w) + 1) : SubSeq(s, i, i + Len(w) - 1) = w

-----------------------------------------------------------------------------
(* Text conversions *)

Digits == <<"0", "1", "2", "3", "4", "5", "6", "7", "8", "9">>

RECURSIVE FormatNat(_)
FormatNat(n) ==
    IF n < 10 THEN <<Digits[n + 1]>>
    ELSE FormatNat(n \div 10) \o <<Digits[(n % 10) + 1]>>

\* f"{i}" of an int
FormatInt(i) == IF i < 0 THEN <<"-">> \o FormatNat(-i) ELSE FormatNat(i)

\* f"{x}" of a float (its repr): sign, integer part, point, fraction
FormatFloat(x) ==
    LET a == IF x < 0 THEN -x ELSE x
    IN  (IF x < 0 THEN <<"-">> ELSE <<>>)
        \o FormatNat(a \div 10) \o <<".">> \o <<Digits[(a % 10) + 1]>>

DigitVal(ch) == (CHOOSE d \in 1..10 : Digits[d] = ch) - 1

RECURSIVE ParseNat(_)
ParseNat(s) ==
    IF s = <<>> THEN 0
    ELSE ParseNat(SubSeq(s, 1, Len(s) - 1)) * 10 + DigitVal(s[Len(s)])

\* int(s)
ParseInt(s) == IF s[1] = "-" THEN -ParseNat(Tail(s)) ELSE ParseNat(s)

\* float(s): text with or without a decimal point; the result in tenths
ParseFloat(s) ==
    LET neg == s[1] = "-"
        u == IF neg THEN Tail(s) ELSE s
        dots == {i \in 1..Len(u) : u[i] = "."}
        a == IF dots = {} THEN ParseNat(u) * 10
             ELSE LET p == CHOOSE i \in dots : TRUE
                  IN  ParseNat(SubSeq(u, 1, p - 1)) * 10
                      + (IF p < Len(u) THEN DigitVal(u[p + 1]) ELSE 0)
    IN  IF neg THEN -a ELSE a

-----------------------------------------------------------------------------
(* The file system and the document *)

\* the intermediate text file of the exporter, and the name of the zip entry
XmlName == "geogebra.xml"
\* the container the calls are given as ggb_filename
ggb_filename == "figure.ggb"
Paths == {XmlName, ggb_filename}

NoFile == [kind |-> "absent"]
TextFile(chunks, open) == [kind |-> "text", chunks |-> chunks, open |-> open]
ZipFile(name, chunks) == [kind |-> "zip", name |-> name, chunks |-> chunks]

\* the lines before the elements of the construction, <?xml to <construction>
Preamble == [tag |-> "preamble"]
\* the lines after them, </construction> and </geogebra>
Closing == [tag |-> "closing"]

IsNode(ch) == ch.tag \in {"element", "command"}

\* a document parses when it is  preamble, complete nodes, closing
WellFormed(chunks) ==
    /\ Len(chunks) >= 2
    /\ chunks[1] = Preamble
    /\ chunks[Len(chunks)] = Closing
    /\ \A i \in 2..(Len(chunks) - 1) : IsNode(chunks[i])

\* ET.fromstring(...).find('construction'): the children of the construction
Construction(chunks) == SubSeq(chunks, 2, Len(chunks) - 1)

\* c.findall(tag)
FindAll(nodes, tag) == SelectSeq(nodes, LAMBDA e : e.tag = tag)

-----------------------------------------------------------------------------
(* The SageMath graph: verts and edges in iteration order, an edge a       *)
(* triple <<u, v, label>>, vattr the object associated with each vertex.   *)

SamePair(e, a, b) == (e[1] = a /\ e[2] = b) \/ (e[1] = b /\ e[2] = a)

HasEdge(g, a, b) == \E i \in DOMAIN g.edges : SamePair(g.edges[i], a, b)

\* G.edge_label(a, b) of an edge of the graph
EdgeLabel(g, a, b) ==
    LET i == CHOOSE j \in DOMAIN g.edges : SamePair(g.edges[j], a, b)
    IN  g.edges[i][3]

\* G.set_edge_label(a, b, l): nothing happens when the edge does not exist
SetEdgeLabel(g, a, b, l) ==
    [g EXCEPT !.edges = [i \in DOMAIN g.edges |->
        IF SamePair(g.edges[i], a, b)
        THEN <<g.edges[i][1], g.edges[i][2], l>> ELSE g.edges[i]]]

\* G.add_edge([a, b]) on a graph without loops and multiple edges: a loop is
\* ignored, an edge that exists is kept once and loses its label
AddEdge(g, a, b) ==
    IF a = b THEN g
    ELSE IF HasEdge(g, a, b) THEN SetEdgeLabel(g, a, b, None)
    ELSE [g EXCEPT !.edges =
            Append(@, <<IF a < b THEN a ELSE b, IF a < b THEN b ELSE a, None>>)]

-----------------------------------------------------------------------------
(* geogebra_to_graph *)

\* the colour 4-tuple read from an objColor child
ReadColor(color) ==
    <<ParseInt(color.r), ParseInt(color.g), ParseInt(color.b), ParseFloat(color.alpha)>>

\* the info dict of a point element
PointInfo(elt) ==
    Dict([label |-> elt.attrib.label,
          color |-> ReadColor(elt.objColor),
          size |-> ParseInt(elt.pointSize.val),
          style |-> ParseInt(elt.pointStyle.val)])

\* a mutant of PointStep: the position is stored under the number of the
\* next vertex
PointStepOffByOne(elt, acc) ==
    [vertex_labels |-> Append(acc.vertex_labels, elt.attrib.label),
     pos |-> (acc.v + 1 :> <<ParseFloat(elt.coords.x), ParseFloat(elt.coords.y)>>)
             @@ acc.pos,
     vertex_information |-> Append(acc.vertex_information, PointInfo(elt)),
     v |-> acc.v + 1]

\* one point element, read into the lists
PointStep(elt, acc) ==
    [vertex_labels |-> Append(acc.vertex_labels, elt.attrib.label),
     pos |-> (acc.v :> <<ParseFloat(elt.coords.x), ParseFloat(elt.coords.y)>>)
             @@ acc.pos,
     vertex_information |-> Append(acc.vertex_information, PointInfo(elt)),
     v |-> acc.v + 1]

\* for elt in c.findall('element'): points become vertices
RECURSIVE PointsLoop(_, _)
PointsLoop(elts, acc) ==
    IF elts = <<>> THEN acc
    ELSE PointsLoop(Tail(elts),
                    IF Head(elts).attrib.type = "point"
                    THEN PointStep(Head(elts), acc) ELSE acc)

\* vertex_labels.index(x): the first place of x, from 0; -1 stands for the
\* ValueError of a label that is not in the list
Index(list, x) ==
    IF \E i \in DOMAIN list : list[i] = x
    THEN (CHOOSE i \in DOMAIN list :
            list[i] = x /\ \A j \in DOMAIN list : list[j] = x => i <= j) - 1
    ELSE -1

\* a mutant of SegmentStep: an edge that exists keeps the label it has
SegmentStepFirstWins(elt, labels, acc) ==
    LET e0 == Index(labels, elt.input.a0)
        e1 == Index(labels, elt.input.a1)
        label == Str(elt.output.a0)
    IN  IF e0 = -1 \/ e1 = -1
        THEN [acc EXCEPT !.exc = "ValueError"]
        ELSE IF HasEdge(acc.G, e0, e1) THEN acc
        ELSE [acc EXCEPT !.G = SetEdgeLabel(AddEdge(acc.G, e0, e1), e0, e1, label)]

\* one Segment command: the edge and its label, or the ValueError of index()
SegmentStep(elt, labels, acc) ==
    LET e0 == Index(labels, elt.input.a0)
        e1 == Index(labels, elt.input.a1)
        label == Str(elt.output.a0)
    IN  IF e0 = -1 \/ e1 = -1
        THEN [acc EXCEPT !.exc = "ValueError"]
        ELSE [acc EXCEPT !.G = SetEdgeLabel(AddEdge(acc.G, e0, e1), e0, e1, label)]

\* for elt in c.findall('command'): line segments become edges
RECURSIVE SegmentsLoop(_, _, _)
SegmentsLoop(cmds, labels, acc) ==
    IF cmds = <<>> \/ acc.exc # "none" THEN acc
    ELSE SegmentsLoop(Tail(cmds), labels,
                      IF Head(cmds).attrib.name = "Segment"
                      THEN SegmentStep(Head(cmds), labels, acc) ELSE acc)

\* the info dict of a segment element
SegmentInfo(elt, label) ==
    Dict([label |-> label.s,
          color |-> ReadColor(elt.objColor),
          thickness |-> ParseInt(elt.lineStyle.thickness)])

\* a mutant of EdgeInfoScan: any segment element styles the edge
EdgeInfoScanAnyLabel(elts, label, g, e) ==
    IF \E i \in DOMAIN elts : elts[i].attrib.type = "segment"
    THEN LET i == CHOOSE j \in DOMAIN elts : elts[j].attrib.type = "segment"
         IN  SetEdgeLabel(g, e[1], e[2], SegmentInfo(elts[i], label))
    ELSE g

\* for elt in c.findall('element'): the segment elements labelled as the edge
RECURSIVE EdgeInfoScan(_, _, _, _)
EdgeInfoScan(elts, label, g, e) ==
    IF elts = <<>> THEN g
    ELSE EdgeInfoScan(Tail(elts), label,
                      IF /\ Head(elts).attrib.type = "segment"
                         /\ Str(Head(elts).attrib.label) = label
                      THEN SetEdgeLabel(g, e[1], e[2], SegmentInfo(Head(elts), label))
                      ELSE g,
                      e)

\* for e in G.edges(sort=False): the edge properties come from another object
RECURSIVE EdgesLoop(_, _, _)
EdgesLoop(es, elts, g) ==
    IF es = <<>> THEN g
    ELSE LET e == Head(es)
             label == EdgeLabel(g, e[1], e[2])
         IN  EdgesLoop(Tail(es), elts, EdgeInfoScan(elts, label, g, e))

\* with zipfile.ZipFile(ggb_filename,'r'): read and parse geogebra.xml
ImportRead ==
    /\ pc \in {"import", "export_done"}
    /\ LET f == files[ggb_filename]
       IN  IF f.kind # "zip"
           THEN /\ exc' = "FileNotFoundError" /\ pc' = "import_raised" /\ c' = c
           ELSE IF f.name # XmlName
           THEN /\ exc' = "KeyError" /\ pc' = "import_raised" /\ c' = c
           ELSE IF ~WellFormed(f.chunks)
           THEN /\ exc' = "ParseError" /\ pc' = "import_raised" /\ c' = c
           ELSE /\ c' = Construction(f.chunks) /\ pc' = "import_points" /\ exc' = exc
    /\ UNCHANGED <<files, G, vertex_labels, vertex_information, v, pos, Gimp>>
    /\ UNCHANGED <<plotVars, exportVars>>

\* interpret points as vertices
ImportPoints ==
    /\ pc = "import_points"
    /\ LET acc == PointsLoop(FindAll(c, "element"),
                             [vertex_labels |-> <<>>, vertex_information |-> <<>>,
                              v |-> 0, pos |-> <<>>])
       IN  /\ vertex_labels' = acc.vertex_labels
           /\ vertex_information' = acc.vertex_information
           /\ v' = acc.v
           /\ pos' = acc.pos
    /\ pc' = "import_graph"
    /\ UNCHANGED <<files, G, exc, c, Gimp, plotVars, exportVars>>

\* G=Graph(); G.add_vertices(range(v)); G.set_pos(pos); G.set_vertex(i, ...)
ImportGraph ==
    /\ pc = "import_graph"
    /\ Gimp' = [verts |-> [i \in 1..v |-> i - 1],
                vattr |-> [i \in 0..(v - 1) |-> vertex_information[i + 1]],
                pos |-> Dict(pos),
                edges |-> <<>>]
    /\ pc' = "import_segments"
    /\ UNCHANGED <<files, G, exc, c, vertex_labels, vertex_information, v, pos>>
    /\ UNCHANGED <<plotVars, exportVars>>

\* interpret line segments as edges
ImportSegments ==
    /\ pc = "import_segments"
    /\ LET acc == SegmentsLoop(FindAll(c, "command"), vertex_labels,
                               [G |-> Gimp, exc |-> "none"])
       IN  IF acc.exc # "none"
           THEN /\ exc' = acc.exc /\ pc' = "import_raised" /\ Gimp' = Gimp
           ELSE /\ Gimp' = acc.G /\ pc' = "import_edges" /\ exc' = exc
    /\ UNCHANGED <<files, G, c, vertex_labels, vertex_information, v, pos>>
    /\ UNCHANGED <<plotVars, exportVars>>

\* extract the edge properties from the segment elements
ImportEdges ==
    /\ pc = "import_edges"
    /\ Gimp' = EdgesLoop(Gimp.edges, FindAll(c, "element"), Gimp)
    /\ pc' = "import_done"
    /\ UNCHANGED <<files, G, exc, c, vertex_labels, vertex_information, v, pos>>
    /\ UNCHANGED <<plotVars, exportVars>>

NextImport == ImportRead \/ ImportPoints \/ ImportGraph \/ ImportSegments \/ ImportEdges

-----------------------------------------------------------------------------
(* The documents handed to the importer *)

\* the values of the point elements, by label
PointData(l) ==
    CASE l = <<"A">> -> [x |-> 0, y |-> 0, color |-> <<255, 0, 0, 10>>,
                         size |-> 5, style |-> 0]
      [] l = <<"B">> -> [x |-> 10, y |-> -25, color |-> <<0, 255, 0, 0>>,
                         size |-> 3, style |-> 10]

\* the values of the segment elements, by label
SegmentData(l) ==
    CASE l = <<"f">> -> [color |-> <<0, 0, 0, 0>>, thickness |-> 3]
      [] l = <<"g">> -> [color |-> <<153, 51, 0, 5>>, thickness |-> 12]

ColorNode(col) ==
    [r |-> FormatInt(col[1]), g |-> FormatInt(col[2]), b |-> FormatInt(col[3]),
     alpha |-> FormatFloat(col[4])]

PointElt(l) ==
    LET d == PointData(l)
    IN  [tag |-> "element", attrib |-> [type |-> "point", label |-> l],
         coords |-> [x |-> FormatFloat(d.x), y |-> FormatFloat(d.y), z |-> <<"1">>],
         objColor |-> ColorNode(d.color),
         pointSize |-> [val |-> FormatInt(d.size)],
         pointStyle |-> [val |-> FormatInt(d.style)]]

SegmentElt(l) ==
    LET d == SegmentData(l)
    IN  [tag |-> "element", attrib |-> [type |-> "segment", label |-> l],
         objColor |-> ColorNode(d.color),
         lineStyle |-> [thickness |-> FormatInt(d.thickness)]]

LineElt(l) ==
    [tag |-> "element", attrib |-> [type |-> "line", label |-> l],
     objColor |-> ColorNode(<<0, 0, 0, 0>>),
     lineStyle |-> [thickness |-> <<"5">>]]

Command(name, a0, a1, out) ==
    [tag |-> "command", attrib |-> [name |-> name],
     input |-> [a0 |-> a0, a1 |-> a1], output |-> [a0 |-> out]]

\* the elements and commands a document is made of: two points, two segment
\* elements, a line, two Segment commands between the points (one in each
\* direction), one Segment command that ends on the line, and a Line command
Entries ==
    <<PointElt(<<"A">>), PointElt(<<"B">>),
      SegmentElt(<<"f">>), SegmentElt(<<"g">>),
      LineElt(<<"l">>),
      Command("Segment", <<"A">>, <<"B">>, <<"f">>),
      Command("Segment", <<"B">>, <<"A">>, <<"g">>),
      Command("Segment", <<"A">>, <<"l">>, <<"h">>),
      Command("Line", <<"A">>, <<"B">>, <<"l">>)>>

\* the choices of n entries in some order, every entry (so every label
\* declared) at most once
Choices(n) ==
    {idx \in [1..n -> DOMAIN Entries] : \A i, j \in 1..n : idx[i] = idx[j] => i = j}

\* the document of a choice
Document(idx) == <<Preamble>> \o [i \in DOMAIN idx |-> Entries[idx[i]]] \o <<Closing>>

InitImport ==
    /\ \E n \in 0..MaxDocLen : \E idx \in Choices(n) :
         files = [p \in Paths |-> IF p = ggb_filename
                                  THEN ZipFile(XmlName, Document(idx)) ELSE NoFile]
    /\ G = None
    /\ pc = "import"
    /\ exc = "none"
    /\ c = <<>>
    /\ vertex_labels = <<>>
    /\ vertex_information = <<>>
    /\ v = 0
    /\ pos = <<>>
    /\ Gimp = None
    /\ vertex_colors = None
    /\ edge_colors = None
    /\ vi = 0
    /\ ei = 0

SpecImport == InitImport /\ [][NextImport]_vars

-----------------------------------------------------------------------------
(* geogebra_graph_plot *)

\* colors: the GeoGebra colour -> the named colour it is plotted in
colors ==
    (<<0, 255, 0>> :> "springgreen") @@ (<<255, 0, 0>> :> "salmon")
    @@ (<<0, 255, 255>> :> "skyblue") @@ (<<0, 0, 0>> :> "black")
    @@ (<<255, 0, 255>> :> "magenta")

other_v == "skyblue"
other_e == "black"

\* vertex_colors / edge_colors before the loop: every named colour, no member
EmptyBuckets == [name \in Range(colors) |-> <<>>]

\* try: attr['color'][:3]  except TypeError: other
\* a KeyError (a dict without 'color') is not caught
ColorOf(attr, other) ==
    IF ~IsDict(attr) THEN [exc |-> "none", kind |-> "name", val |-> other]
    ELSE IF "color" \notin DOMAIN attr.d THEN [exc |-> "KeyError"]
    ELSE [exc |-> "none", kind |-> "rgb", val |-> SubSeq(attr.d.color, 1, 3)]

\* a mutant of BucketOf: a colour that is not in the table goes to the bucket
\* of the edges
BucketOfAlwaysEdge(col, other) ==
    IF col.kind = "rgb" /\ col.val \in DOMAIN colors THEN colors[col.val] ELSE other_e

\* if color in colors: colors[color]  else: other
BucketOf(col, other) ==
    IF col.kind = "rgb" /\ col.val \in DOMAIN colors THEN colors[col.val] ELSE other

\* for v in G.vertices(sort=False) / for e in G.edges(sort=False): members is
\* the list of <<member, attribute>> still to place
RECURSIVE BucketLoop(_, _, _)
BucketLoop(members, other, acc) ==
    IF members = <<>> \/ acc.exc # "none" THEN acc
    ELSE LET m == Head(members)
             col == ColorOf(m[2], other)
         IN  BucketLoop(Tail(members), other,
                 IF col.exc # "none" THEN [acc EXCEPT !.exc = col.exc]
                 ELSE [acc EXCEPT !.buckets[BucketOf(col, other)] = Append(@, m[1])])

\* the vertices are sorted into the named colours
PlotVertices ==
    /\ pc = "idle"
    /\ LET acc == BucketLoop([i \in DOMAIN G.verts |-> <<G.verts[i], G.vattr[G.verts[i]]>>],
                             other_v, [buckets |-> EmptyBuckets, exc |-> "none"])
       IN  /\ vertex_colors' = acc.buckets
           /\ IF acc.exc # "none"
              THEN exc' = acc.exc /\ pc' = "plot_raised"
              ELSE exc' = exc /\ pc' = "plot_edges"
    /\ UNCHANGED <<files, G, edge_colors, importVars, exportVars>>

\* the edges are sorted into the named colours, and the plot is returned
PlotEdges ==
    /\ pc = "plot_edges"
    /\ LET acc == BucketLoop([i \in DOMAIN G.edges |->
                                <<G.edges[i], EdgeLabel(G, G.edges[i][1], G.edges[i][2])>>],
                             other_e, [buckets |-> EmptyBuckets, exc |-> "none"])
       IN  /\ edge_colors' = acc.buckets
           /\ IF acc.exc # "none"
              THEN exc' = acc.exc /\ pc' = "plot_raised"
              ELSE exc' = exc /\ pc' = "plot_done"
    /\ UNCHANGED <<files, G, vertex_colors, importVars, exportVars>>

-----------------------------------------------------------------------------
(* graph_to_geogebra *)

\* the chunks written to the open geogebra.xml
Written == files[XmlName].chunks

\* with open("geogebra.xml","wt") as f: the lines up to <construction>
ExportOpen ==
    /\ pc \in {"idle", "plot_done"}
    /\ files' = [files EXCEPT ![XmlName] = TextFile(<<Preamble>>, TRUE)]
    /\ vi' = 0
    /\ ei' = 0
    /\ pc' = "export_body"
    /\ UNCHANGED <<G, exc, importVars, plotVars>>

\* info=G.get_vertex(v); if info==None: info=dict()
InfoOf(x) == IF G.vattr[x] = None THEN Dict(<<>>) ELSE G.vattr[x]

\* a mutant of PointLabelOf: the stored label is written when there is one
PointLabelOfStored(x, info) ==
    IF IsDict(info) /\ "label" \in DOMAIN info.d THEN info.d.label ELSE FormatInt(x)

\* label="{v}": the name of the vertex, not info['label']
PointLabelOf(x, info) == FormatInt(x)

\* the objColor line of a point
PointColorOf(info) ==
    IF PyIn("color", info)
    THEN [r |-> FormatInt(info.d.color[1]), g |-> FormatInt(info.d.color[2]),
          b |-> FormatInt(info.d.color[3]), alpha |-> FormatFloat(info.d.color[4])]
    ELSE [r |-> <<"7", "7">>, g |-> <<"7", "7">>, b |-> <<"2", "5", "5">>,
          alpha |-> <<"0">>]

\* the pointSize line
PointSizeOf(info) ==
    IF PyIn("size", info) THEN [val |-> FormatInt(info.d.size)] ELSE [val |-> <<"5">>]

\* the pointStyle line
PointStyleOf(info) ==
    IF PyIn("style", info) THEN [val |-> FormatInt(info.d.style)] ELSE [val |-> <<"0">>]

\* what the lookup pos[v] raises: pos is None, or v is not a key of pos
PosError(x) ==
    IF G.pos = None THEN "TypeError"
    ELSE IF x \notin DOMAIN G.pos.d THEN "KeyError"
    ELSE "none"

\* what info['color'] (and 'size', 'style') raises on a str that holds the key
InfoError(info) ==
    IF IsStr(info) /\ (PyIn("color", info) \/ PyIn("size", info) \/ PyIn("style", info))
    THEN "TypeError" ELSE "none"

\* the lines of a point written before its coords are looked up
OpenPoint(x, info) ==
    [tag |-> "open_element", attrib |-> [type |-> "point", label |-> PointLabelOf(x, info)],
     objColor |-> PointColorOf(info)]

\* the complete point element of vertex x
PointOf(x, info) ==
    [tag |-> "element", attrib |-> [type |-> "point", label |-> PointLabelOf(x, info)],
     objColor |-> PointColorOf(info),
     coords |-> [x |-> FormatFloat(G.pos.d[x][1]), y |-> FormatFloat(G.pos.d[x][2]),
                 z |-> <<"1">>],
     pointSize |-> PointSizeOf(info),
     pointStyle |-> PointStyleOf(info)]

\* one vertex of  for v in G.vertices(sort=False); an exception leaves the
\* with block, which closes the file
ExportVertex ==
    /\ pc = "export_body"
    /\ vi < Len(G.verts)
    /\ LET x == G.verts[vi + 1]
           info == InfoOf(x)
       IN  IF InfoError(info) # "none"
           THEN /\ files' = [files EXCEPT ![XmlName] = TextFile(
                                Append(Written, [tag |-> "open_element",
                                                 attrib |-> [type |-> "point",
                                                             label |-> PointLabelOf(x, info)]]),
                                FALSE)]
                /\ exc' = InfoError(info) /\ pc' = "export_raised" /\ vi' = vi
           ELSE IF PosError(x) # "none"
           THEN /\ files' = [files EXCEPT ![XmlName] =
                                TextFile(Append(Written, OpenPoint(x, info)), FALSE)]
                /\ exc' = PosError(x) /\ pc' = "export_raised" /\ vi' = vi
           ELSE /\ files' = [files EXCEPT ![XmlName] =
                                TextFile(Append(Written, PointOf(x, info)), TRUE)]
                /\ exc' = exc /\ pc' = pc /\ vi' = vi + 1
    /\ UNCHANGED <<G, ei, importVars, plotVars>>

\* label=f"edge-{e[0]}-{e[1]}"
SegmentLabelOf(e) ==
    <<"e", "d", "g", "e", "-">> \o FormatInt(e[1]) \o <<"-">> \o FormatInt(e[2])

\* the Segment command of an edge
SegmentCommandOf(e) ==
    [tag |-> "command", attrib |-> [name |-> "Segment"],
     input |-> [a0 |-> FormatInt(e[1]), a1 |-> FormatInt(e[2])],
     output |-> [a0 |-> SegmentLabelOf(e)]]

\* the segment element of an edge
SegmentOf(e) ==
    [tag |-> "element", attrib |-> [type |-> "segment", label |-> SegmentLabelOf(e)],
     objColor |-> [r |-> <<"0">>, g |-> <<"0">>, b |-> <<"0">>, alpha |-> <<"0">>],
     lineStyle |-> [thickness |-> <<"5">>]]

\* one edge of  for e in G.edges(sort=False)
ExportEdge ==
    /\ pc = "export_body"
    /\ vi = Len(G.verts)
    /\ ei < Len(G.edges)
    /\ LET e == G.edges[ei + 1]
       IN  files' = [files EXCEPT ![XmlName] =
                        TextFile(Written \o <<SegmentCommandOf(e), SegmentOf(e)>>, TRUE)]
    /\ ei' = ei + 1
    /\ UNCHANGED <<G, pc, exc, vi, importVars, plotVars>>

\* </construction>, </geogebra>, and the end of the with block
ExportClose ==
    /\ pc = "export_body"
    /\ vi = Len(G.verts)
    /\ ei = Len(G.edges)
    /\ files' = [files EXCEPT ![XmlName] = TextFile(Append(Written, Closing), FALSE)]
    /\ pc' = "export_zip"
    /\ UNCHANGED <<G, exc, vi, ei, importVars, plotVars>>

\* a mutant of ExportZip: the container is written whenever the exporter is
\* past the open, whatever the intermediate file holds
ExportZipEarly ==
    /\ pc \in {"export_body", "export_zip"}
    /\ files' = [files EXCEPT ![ggb_filename] = ZipFile(XmlName, files[XmlName].chunks)]
    /\ pc' = IF pc = "export_zip" THEN "export_done" ELSE pc
    /\ UNCHANGED <<G, exc, vi, ei, importVars, plotVars>>

\* with zipfile.ZipFile(ggb_filename,'w') as f: f.write("geogebra.xml")
ExportZip ==
    /\ pc = "export_zip"
    /\ files' = [files EXCEPT ![ggb_filename] = ZipFile(XmlName, files[XmlName].chunks)]
    /\ pc' = "export_done"
    /\ UNCHANGED <<G, exc, vi, ei, importVars, plotVars>>

-----------------------------------------------------------------------------
(* The graphs handed to the palette mapper and the exporter *)

\* the objects a vertex may carry: none, a bare label, dicts with and without
\* each of color, size and style
VertexAttrs ==
    <<None,
      Str(<<"A">>),
      Dict(<<>>),
      Dict([size |-> 7]),
      Dict([style |-> 2]),
      Dict([label |-> <<"B">>, size |-> 4, style |-> 3]),
      Dict([label |-> <<"A">>, color |-> <<255, 0, 0, 10>>, size |-> 5, style |-> 0]),
      Dict([color |-> <<0, 255, 0, 0>>]),
      Dict([color |-> <<77, 77, 255, 5>>, size |-> 3]),
      Dict([color |-> <<0, 0, 0, 0>>, style |-> 1]),
      Dict([label |-> <<"B">>, color |-> <<0, 255, 255, 10>>, size |-> 12, style |-> 10]),
      Dict([color |-> <<255, 0, 255, 0>>])>>

\* the labels an edge may carry: dicts with a color, no label, a bare label,
\* a dict without color
EdgeAttrs ==
    <<Dict([label |-> <<"f">>, color |-> <<0, 0, 0, 0>>, thickness |-> 3]),
      Dict([color |-> <<255, 0, 0, 10>>]),
      Dict([label |-> <<"g">>, color |-> <<153, 51, 0, 5>>, thickness |-> 12]),
      None,
      Str(<<"f">>),
      Dict([thickness |-> 2])>>

\* the position of vertex i
PosOf(i) == <<15 * i - 10, 3 - 25 * i>>

VertexOrders(n) ==
    {p \in [1..n -> 0..(n - 1)] : \A i, j \in 1..n : p[i] = p[j] => i = j}

\* the pairs i < j of 0..n-1 in lexicographic order
RECURSIVE PairsFrom(_, _, _)
PairsFrom(i, j, n) ==
    IF i >= n - 1 THEN <<>>
    ELSE IF j >= n THEN PairsFrom(i + 1, i + 2, n)
    ELSE <<<<i, j>>>> \o PairsFrom(i, j + 1, n)

Reverse(s) == [i \in DOMAIN s |-> s[Len(s) + 1 - i]]

\* the graph on 0..n-1 that iterates its vertices in the order verts, carries
\* the attributes from place seed of the lists on, has the pairs chosen as
\* edges (in one iteration order and orientation or the other), and has
\* the positions of the vertices in placed (or no position dict at all)
GraphOf(n, verts, seed, chosen, rev, placed, nopos) ==
    LET pairs == SelectSeq(PairsFrom(0, 1, n), LAMBDA p : p \in chosen)
        es == [k \in DOMAIN pairs |->
                 <<IF rev THEN pairs[k][2] ELSE pairs[k][1],
                   IF rev THEN pairs[k][1] ELSE pairs[k][2],
                   EdgeAttrs[((seed + k - 1) % Len(EdgeAttrs)) + 1]>>]
    IN  [verts |-> verts,
         vattr |-> [i \in 0..(n - 1) |-> VertexAttrs[((seed + i) % Len(VertexAttrs)) + 1]],
         pos |-> IF nopos THEN None ELSE Dict([i \in placed |-> PosOf(i)]),
         edges |-> IF rev THEN Reverse(es) ELSE es]

\* a container left at the destination by an earlier run
OldContainer == ZipFile(XmlName, Document(<<1, 2, 6, 3>>))

InitGraph ==
    /\ \E n \in 0..MaxN : \E verts \in VertexOrders(n) :
       \E seed \in 0..(Len(VertexAttrs) - 1) :
       \E chosen \in SUBSET Range(PairsFrom(0, 1, n)) : \E rev \in BOOLEAN :
       \E missing \in SUBSET (0..(n - 1)) : \E nopos \in BOOLEAN :
         /\ Cardinality(missing) <= 1
         /\ nopos => missing = {}
         /\ rev => chosen # {}
         /\ G = GraphOf(n, verts, seed, chosen, rev, (0..(n - 1)) \ missing, nopos)
    /\ \E old \in {NoFile, OldContainer} :
         files = [p \in Paths |-> IF p = ggb_filename THEN old ELSE NoFile]
    /\ pc = "idle"
    /\ exc = "none"
    /\ c = <<>>
    /\ vertex_labels = <<>>
    /\ vertex_information = <<>>
    /\ v = 0
    /\ pos = <<>>
    /\ Gimp = None
    /\ vertex_colors = None
    /\ edge_colors = None
    /\ vi = 0
    /\ ei = 0

Next ==
    \/ PlotVertices \/ PlotEdges
    \/ ExportOpen \/ ExportVertex \/ ExportEdge \/ ExportClose \/ ExportZip
    \/ ImportRead \/ ImportPoints \/ ImportGraph \/ ImportSegments \/ ImportEdges

Spec == InitGraph /\ [][Next]_vars

-----------------------------------------------------------------------------
(* What the document in the container declares *)

DocNodes == Construction(files[ggb_filename].chunks)

IsPoint(e) == e.tag = "element" /\ e.attrib.type = "point"
IsSegmentElt(e) == e.tag = "element" /\ e.attrib.type = "segment"
IsSegmentCmd(e) == e.tag = "command" /\ e.attrib.name = "Segment"

DocPoints == SelectSeq(DocNodes, IsPoint)
DocSegments == SelectSeq(DocNodes, IsSegmentCmd)

Resolves(l) == \E i \in DOMAIN DocPoints : DocPoints[i].attrib.label = l
Resolvable(cmd) == Resolves(cmd.input.a0) /\ Resolves(cmd.input.a1)

\* the number of the point labelled l: its place among the points, from 0
PointNumber(l) == (CHOOSE i \in DOMAIN DocPoints : DocPoints[i].attrib.label = l) - 1
PairOf(cmd) == {PointNumber(cmd.input.a0), PointNumber(cmd.input.a1)}

HasSegmentElt(l) == \E i \in DOMAIN DocNodes :
                        IsSegmentElt(DocNodes[i]) /\ DocNodes[i].attrib.label = l

\* the attribute an edge correlated with output label l ends with
StyleOf(l) ==
    IF HasSegmentElt(l)
    THEN Dict([label |-> l, color |-> SegmentData(l).color,
               thickness |-> SegmentData(l).thickness])
    ELSE Str(l)

Imported == pc = "import_done"

-----------------------------------------------------------------------------
(* Claims about geogebra_to_graph, under SpecImport *)

\* C1: segment drop rule. Importing never aborts, and the returned graph has
\* as many edges as there are distinct endpoint pairs among the Segment
\* commands whose two endpoint labels are labels of point elements: a
\* command with an endpoint that is no point produces no edge.
C1_SegmentDropRule ==
    /\ pc # "import_raised"
    /\ Imported =>
         Len(Gimp.edges) =
           Cardinality({PairOf(DocSegments[i]) :
                          i \in {j \in DOMAIN DocSegments : Resolvable(DocSegments[j])}})

\* C4: vertex index invariant. Whatever the interleaving of the document,
\* the imported graph has the vertices 0..v-1, v the number of point
\* elements; vertex i carries the label, color, size and style of the i-th
\* point element, and pos has the keys 0..v-1, entry i the (x, y) of that
\* element. The result is determined by the document alone.
C4_VertexIndexInvariant ==
    Imported =>
      LET n == Len(DocPoints)
      IN  /\ Len(Gimp.verts) = n
          /\ Range(Gimp.verts) = 0..(n - 1)
          /\ DOMAIN Gimp.vattr = 0..(n - 1)
          /\ IsDict(Gimp.pos)
          /\ DOMAIN Gimp.pos.d = 0..(n - 1)
          /\ \A i \in 0..(n - 1) :
               LET l == DocPoints[i + 1].attrib.label
                   d == PointData(l)
               IN  /\ Gimp.vattr[i] = Dict([label |-> l, color |-> d.color,
                                           size |-> d.size, style |-> d.style])
                   /\ Gimp.pos.d[i] = <<d.x, d.y>>

\* C4's case: an import of a document whose two points are separated by
\* other entries, the point B before the point A
C4_Witness ==
    /\ Imported
    /\ Len(DocPoints) = 2
    /\ DocPoints[1].attrib.label = <<"B">>
    /\ \E i, j, k \in DOMAIN DocNodes :
         /\ i < j /\ j < k
         /\ IsPoint(DocNodes[i]) /\ ~IsPoint(DocNodes[j]) /\ IsPoint(DocNodes[k])

\* C8: two-phase edge attribute. A document whose Segment endpoints all
\* resolve is imported without aborting, and every edge's attribute is in one
\* of two states: the dict {label, color, thickness} of the segment element
\* labelled as an output label of the edge's commands, or, when no segment
\* element has that label, the bare output label.
C8_TwoPhaseEdgeAttribute ==
    /\ (\A i \in DOMAIN DocSegments : Resolvable(DocSegments[i])) => pc # "import_raised"
    /\ Imported =>
         \A k \in DOMAIN Gimp.edges :
           LET e == Gimp.edges[k]
               outs == {DocSegments[i].output.a0 :
                          i \in {j \in DOMAIN DocSegments :
                                   /\ Resolvable(DocSegments[j])
                                   /\ PairOf(DocSegments[j]) = {e[1], e[2]}}}
           IN  \E l \in outs :
                 /\ e[3] = StyleOf(l)
                 /\ IsDict(e[3]) <=> HasSegmentElt(l)
                 /\ IsStr(e[3]) <=> ~HasSegmentElt(l)

\* C8's case: an imported edge whose output label has no segment element,
\* so that its attribute is still the bare label
C8_Witness ==
    /\ Imported
    /\ \E k \in DOMAIN Gimp.edges : IsStr(Gimp.edges[k][3])
    /\ \E i \in DOMAIN DocNodes : IsSegmentElt(DocNodes[i])

\* C9: duplicate segments, last write wins. The Segment commands that
\* resolve to one unordered pair of vertices give exactly one edge, whose
\* attribute is determined by the output label of the last of them in
\* document order; the output labels of the earlier ones have no effect.
C9_LastWriteWins ==
    Imported =>
      \A i \in DOMAIN DocSegments :
        (Resolvable(DocSegments[i]) /\ Cardinality(PairOf(DocSegments[i])) = 2) =>
          LET p == PairOf(DocSegments[i])
              same == {j \in DOMAIN DocSegments :
                         Resolvable(DocSegments[j]) /\ PairOf(DocSegments[j]) = p}
              last == CHOOSE j \in same : \A m \in same : m <= j
              es == {k \in DOMAIN Gimp.edges : {Gimp.edges[k][1], Gimp.edges[k][2]} = p}
          IN  /\ Cardinality(es) = 1
              /\ \A k \in es : Gimp.edges[k][3] = StyleOf(DocSegments[last].output.a0)

\* C9's case: two Segment commands over the same pair of points, in
\* opposite directions, the segment element of the earlier one present
C9_Witness ==
    /\ Imported
    /\ \E i, j \in DOMAIN DocSegments :
         /\ i < j
         /\ Resolvable(DocSegments[i]) /\ Resolvable(DocSegments[j])
         /\ PairOf(DocSegments[i]) = PairOf(DocSegments[j])
         /\ DocSegments[i].input.a0 = DocSegments[j].input.a1
         /\ HasSegmentElt(DocSegments[i].output.a0)

-----------------------------------------------------------------------------
(* Claims about geogebra_graph_plot and graph_to_geogebra, under Spec *)

\* every vertex has an entry in the position dict
Positioned(g) == \A i \in DOMAIN g.verts : IsDict(g.pos) /\ g.verts[i] \in DOMAIN g.pos.d

HasColor(attr) == IsDict(attr) /\ "color" \in DOMAIN attr.d

\* every vertex and every edge carries a dict with a color
WellShaped(g) ==
    /\ \A i \in DOMAIN g.verts : HasColor(g.vattr[g.verts[i]])
    /\ \A k \in DOMAIN g.edges : HasColor(g.edges[k][3])

\* how often x is a member of some bucket
Memberships(buckets, x) ==
    Cardinality(UNION {{<<name, i>> : i \in {j \in DOMAIN buckets[name] :
                                                 buckets[name][j] = x}} :
                         name \in DOMAIN buckets})

InBucket(buckets, name, x) == \E i \in DOMAIN buckets[name] : buckets[name][i] = x

\* the palette of the specification, its buckets named by the colour the
\* code plots them in: extend-coloring springgreen, reducer salmon,
\* default-vertex skyblue, default-edge black, recolor magenta
PaletteBucket(rgb, default) ==
    CASE rgb = <<0, 255, 0>> -> "springgreen"
      [] rgb = <<255, 0, 0>> -> "salmon"
      [] rgb = <<0, 255, 255>> -> "skyblue"
      [] rgb = <<0, 0, 0>> -> "black"
      [] rgb = <<255, 0, 255>> -> "magenta"
      [] OTHER -> default

\* C2: round-trip identity. The graph imported from the export of a graph G
\* with a position for every vertex has G's vertex set, G's position for
\* every vertex, and G's set of unordered endpoint pairs, whatever the order
\* in which G iterates its vertices and edges.
C2_RoundTrip ==
    (Imported /\ Positioned(G)) =>
      /\ Range(Gimp.verts) = Range(G.verts)
      /\ \A x \in Range(G.verts) : Gimp.pos.d[x] = G.pos.d[x]
      /\ {{Gimp.edges[k][1], Gimp.edges[k][2]} : k \in DOMAIN Gimp.edges}
           = {{G.edges[k][1], G.edges[k][2]} : k \in DOMAIN G.edges}

\* C3: palette fallback tolerance. The palette mapper never raises, and a
\* vertex (an edge) whose attribute is absent, is no dict, or is a dict
\* without 'color' is in the default-vertex (default-edge) bucket.
C3_PaletteFallback ==
    /\ pc # "plot_raised"
    /\ pc = "plot_done" =>
         /\ \A i \in DOMAIN G.verts :
              ~HasColor(G.vattr[G.verts[i]]) => InBucket(vertex_colors, other_v, G.verts[i])
         /\ \A k \in DOMAIN G.edges :
              ~HasColor(G.edges[k][3]) => InBucket(edge_colors, other_e, G.edges[k])

\* C5: palette bucket assignment. When every vertex and edge carries a dict
\* with a color, the mapper returns, every vertex is a member of exactly one
\* vertex bucket and every edge of exactly one edge bucket, and that bucket
\* is the palette entry of the color's RGB triple, or default-vertex
\* (default-edge) when the triple is not in the palette.
C5_PaletteBuckets ==
    WellShaped(G) =>
      /\ pc # "plot_raised"
      /\ pc = "plot_done" =>
           /\ \A i \in DOMAIN G.verts :
                LET x == G.verts[i]
                    rgb == SubSeq(G.vattr[x].d.color, 1, 3)
                IN  /\ Memberships(vertex_colors, x) = 1
                    /\ InBucket(vertex_colors, PaletteBucket(rgb, "skyblue"), x)
           /\ \A k \in DOMAIN G.edges :
                LET e == G.edges[k]
                    rgb == SubSeq(e[3].d.color, 1, 3)
                IN  /\ Memberships(edge_colors, e) = 1
                    /\ InBucket(edge_colors, PaletteBucket(rgb, "black"), e)

\* C5's case: the mapper has returned on a graph of dicts with colors, one
\* of the vertex colors outside the palette, with an edge
C5_Witness ==
    /\ pc = "plot_done"
    /\ WellShaped(G)
    /\ G.edges # <<>>
    /\ \E i \in DOMAIN G.verts :
         SubSeq(G.vattr[G.verts[i]].d.color, 1, 3) \notin DOMAIN colors

\* the exporter has written and closed the whole document
Exported == pc \in {"export_zip", "export_done"}

IsNumeral(s) == s # <<>> /\ \A i \in DOMAIN s : s[i] \in Range(Digits)

StoredOr(attr, key, default) ==
    IF IsDict(attr) /\ key \in DOMAIN attr.d THEN attr.d[key] ELSE default

C7_ExportValueError ==
    ~Positioned(G) =>
      /\ ~Exported
      /\ pc = "export_raised" => exc = "ValueError"

\* the destination holds what it held before the export: nothing, or the
\* container of an earlier run
Untouched == files[ggb_filename] \in {NoFile, OldContainer}

\* the intermediate file holds the whole document and is closed
WholeDocument ==
    /\ files[XmlName].kind = "text"
    /\ ~files[XmlName].open
    /\ WellFormed(files[XmlName].chunks)
    /\ Len(files[XmlName].chunks) = 2 + Len(G.verts) + 2 * Len(G.edges)

\* C10: export write ordering. The container at the destination is created
\* or overwritten only when the whole document has been written to the
\* intermediate file and that file has been closed; an export that fails
\* while emitting leaves the destination as it was and the intermediate file
\* closed with a partial document.
C10_WriteOrdering ==
    /\ [][files'[ggb_filename] # files[ggb_filename] =>
            /\ WholeDocument
            /\ files'[XmlName] = files[XmlName]
            /\ files'[ggb_filename] = ZipFile(XmlName, files[XmlName].chunks)]_vars
    /\ [](pc = "export_raised" =>
            /\ Untouched
            /\ files[XmlName].kind = "text"
            /\ ~files[XmlName].open
            /\ ~WellFormed(files[XmlName].chunks))
    /\ [](pc = "export_body" => Untouched)

\* C10's case: an export that failed on a vertex without position after it
\* had emitted another vertex, the container of an earlier run in place
C10_Witness ==
    /\ pc = "export_raised"
    /\ files[ggb_filename] = OldContainer
    /\ Len(files[XmlName].chunks) >= 3
    /\ files[XmlName].chunks[Len(files[XmlName].chunks)].tag = "open_element"

====
